---- MODULE Spec2Model ----
(***************************************************************************)
(* A model of go-redisson's Mutex (src/mutex/mutex.go): the three Lua      *)
(* scripts, TryLock / Lock / Unlock, the lease extender goroutine and the  *)
(* wait loop of Lock, over a store with key expiry and a pub/sub channel.  *)
(*                                                                         *)
(* Time is discrete.  One clock drives the store's key expiry, the lease   *)
(* extenders' tickers and the contenders' After timers; an extender whose  *)
(* tick is due runs before the clock advances further, which is the most   *)
(* favourable scheduling for a holder.                                     *)
(***************************************************************************)
EXTENDS Integers, Sequences, FiniteSets, TLC

\* ------------------------------------------------------------------ bounds
\* the lease duration in clock units (WithLeaseDuration)
LeaseDuration == 3
\* tokens of one caller that may be live (stored, held or bound to a running
\* extender) at a time
MaxLive == 1
\* messages a subscription buffers before further ones are dropped
MaxInbox == 1

\* the callers, each with a handle on the same logical key
Clients == {"A", "B"}

\* ----------------------------------------------------- names and constants
key == "k"
getLockName == "go_redisson_lock:" \o key
getChannelName == "go_redisson_lock_channel:" \o key
unlockMsg == "unlocked"
\* a payload that some other publisher sends on the release channel
otherMsg == "other"
StoreKeys == {key, getLockName}
\* ticker period of the lease extender
Period == LeaseDuration \div 3

\* a token names its minter and one of the minter's slots
Tokens == Clients \X (1..MaxLive)
\* Lua nil / no token
Nil == <<"", 0>>
\* PTTL of a key without expiry, and of a key that does not exist
NoExpiry == -1
Missing == -2
\* a lease extender that is not running
Stopped == -1
NoRec == [val |-> Nil, ttl |-> Missing]
\* the last step was not the return of a call
NoReturn == <<"", "none">>

\* outcomes of one store round trip: the script ran and the reply arrived,
\* the request never ran, the script ran and the reply was lost
Net == {"ok", "fail", "lost"}

VARIABLES
    store,      \* store key -> [val, ttl]: value and remaining time to live
    subs,       \* client -> channels its pubSub is subscribed to
    inbox,      \* client -> messages buffered on its pubSub channel
    ext,        \* token -> ticks until the extender's next tick, or Stopped
    holder,     \* client -> token of its acquisition that nobody has released
                \* or deleted since, or Nil
    pc,         \* client -> position of the caller
    timer,      \* client -> ticks left on the After timer of its wait
    ctxDone,    \* client -> the context of its running Lock call is cancelled
    res,        \* the caller and the result of the call that returned in the
                \* last step
    wins,       \* acquisitions granted from a free key at this instant
    rt,         \* client -> progress of TryLock(true); Unlock(nil); TryLock
    hash,       \* the store's hash under the Map's namespace: <<field, value>>
    mres,       \* the last call on the Map and what it returned
    mlast       \* Map key -> the value of the last Set that reached the store,
                \* or Absent after a Del (or before any Set)

mutexVars == <<store, subs, inbox, ext, holder, pc, timer, ctxDone, res, wins, rt>>
mapVars == <<hash, mres, mlast>>
vars == <<mutexVars, mapVars>>

\* ------------------------------------------------------ the store commands
\* A key is expired once the clock is past its expiry time, so it still
\* exists, with PTTL 0, at the instant of its expiry time.
RedisExists(s, k) == IF s[k] # NoRec THEN 1 ELSE 0

RedisGet(s, k) == s[k].val

RedisSet(s, k, v) == [s EXCEPT ![k] = [val |-> v, ttl |-> NoExpiry]]

RedisPexpire(s, k, ms) ==
    IF RedisExists(s, k) = 0 THEN s
    ELSE IF ms > 0 THEN [s EXCEPT ![k].ttl = ms]
    ELSE [s EXCEPT ![k] = NoRec]

RedisPttl(s, k) == s[k].ttl

RedisDel(s, k) == [s EXCEPT ![k] = NoRec]

\* one tick of the store's clock on one record
Age(r) ==
    IF r.ttl > 0 THEN [r EXCEPT !.ttl = r.ttl - 1]
    ELSE IF r.ttl = 0 THEN NoRec
    ELSE r

\* ------------------------------------------------------------- the scripts
\* Each yields the store after the script, its reply and what it published.
\* a variant that sets the key without looking at it
lockScriptNoCheck(s, k1, a1, a2) ==
    [store |-> RedisPexpire(RedisSet(s, k1, a2), k1, a1), ret |-> 0, pub |-> {}]

\* a variant that sets the key and gives it no expiry
lockScriptNoExpire(s, k1, a1, a2) ==
    IF RedisExists(s, k1) = 0
    THEN [store |-> RedisSet(s, k1, a2), ret |-> 0, pub |-> {}]
    ELSE [store |-> s, ret |-> RedisPttl(s, k1), pub |-> {}]

lockScript(s, k1, a1, a2) ==
    IF RedisExists(s, k1) = 0
    THEN [store |-> RedisPexpire(RedisSet(s, k1, a2), k1, a1), ret |-> 0, pub |-> {}]
    ELSE [store |-> s, ret |-> RedisPttl(s, k1), pub |-> {}]

\* variants: one that deletes without publishing, one that publishes and
\* replies without deleting, one that publishes even when there is no key
unlockScriptNoPublish(s, k1, k2, a1) ==
    IF RedisExists(s, k1) = 0
    THEN [store |-> s, ret |-> 0, pub |-> {}]
    ELSE [store |-> RedisDel(s, k1), ret |-> 1, pub |-> {}]

unlockScriptNoDel(s, k1, k2, a1) ==
    IF RedisExists(s, k1) = 0
    THEN [store |-> s, ret |-> 0, pub |-> {}]
    ELSE [store |-> s, ret |-> 1, pub |-> {<<k2, a1>>}]

unlockScriptAlwaysPublishes(s, k1, k2, a1) ==
    [store |-> RedisDel(s, k1), ret |-> RedisExists(s, k1), pub |-> {<<k2, a1>>}]

unlockScript(s, k1, k2, a1) ==
    IF RedisExists(s, k1) = 0
    THEN [store |-> s, ret |-> 0, pub |-> {}]
    ELSE [store |-> RedisDel(s, k1), ret |-> 1, pub |-> {<<k2, a1>>}]

extendScript(s, k1, a1, a2) ==
    IF RedisGet(s, k1) = a2
    THEN [store |-> RedisPexpire(s, k1, a1), ret |-> 1, pub |-> {}]
    ELSE [store |-> s, ret |-> 0, pub |-> {}]

\* ----------------------------------------------------------------- pub/sub
\* A published message reaches every subscriber of the channel whose buffer
\* has room; delivery is best-effort.
Deliver(box, pub) ==
    [c \in Clients |->
        IF \E m \in pub : m[1] \in subs[c] /\ Len(box[c]) < MaxInbox
        THEN box[c] \o <<(CHOOSE m \in pub : m[1] \in subs[c])[2]>>
        ELSE box[c]]

\* ------------------------------------------------------------------ tokens
\* uuid.New(): a token no record, extender or holder carries.
InUse ==
    {store[k].val : k \in StoreKeys} \cup {t \in Tokens : ext[t] # Stopped}
        \cup {holder[c] : c \in Clients}

FreshSlots(c) == {i \in 1..MaxLive : <<c, i>> \notin InUse}

extensionId(c) ==
    IF FreshSlots(c) = {} THEN Nil
    ELSE <<c, CHOOSE i \in FreshSlots(c) : \A j \in FreshSlots(c) : i <= j>>

\* --------------------------------------------------------------- the Map
\* keys and values the callers of the Map use; "" is the zero value of V
MapKeys == {"a", "b"}
MapVals == {"", "x", "y"}
namespace == "ns"

\* JsonMarshaler.Marshal: json.Marshal of a string, as a string
Marshal(v) == "\"" \o v \o "\""

\* JsonMarshaler.Unmarshal: the value whose JSON text s is, or an error with
\* the value left at its zero
Unmarshal(s) ==
    IF \E v \in MapVals : Marshal(v) = s
    THEN [err |-> FALSE, val |-> CHOOSE v \in MapVals : Marshal(v) = s]
    ELSE [err |-> TRUE, val |-> ""]

\* a variant that maps every key to one field
computeKeyShared(k) == Marshal("a")

computeKey(k) == Marshal(k)

\* HGET, HSET and HDEL on the hash stored under the namespace
HGet(h, f) ==
    IF \E p \in h : p[1] = f
    THEN [nil |-> FALSE, val |-> (CHOOSE p \in h : p[1] = f)[2]]
    ELSE [nil |-> TRUE, val |-> ""]

HSet(h, f, v) == {p \in h : p[1] # f} \cup {<<f, v>>}

HDel(h, f) == {p \in h : p[1] # f}

NoVal == [exists |-> FALSE, val |-> ""]
NoCall == [op |-> "none", key |-> "", val |-> "", exists |-> FALSE, err |-> FALSE]

Init ==
    /\ store = [k \in StoreKeys |-> NoRec]
    /\ subs = [c \in Clients |-> {}]
    /\ inbox = [c \in Clients |-> <<>>]
    /\ ext = [t \in Tokens |-> Stopped]
    /\ holder = [c \in Clients |-> Nil]
    /\ pc = [c \in Clients |-> "idle"]
    /\ timer = [c \in Clients |-> 0]
    /\ ctxDone = [c \in Clients |-> FALSE]
    /\ res = NoReturn
    /\ wins = 0
    /\ rt = [c \in Clients |-> 0]
    /\ hash = {}
    /\ mres = NoCall
    /\ mlast = [k \in MapKeys |-> NoVal]

\* ------------------------------------------------- observers of the claims
\* wins counts the acquisitions granted since the key was last free, within
\* one instant of the store's clock.
WinsAfter(acquired) ==
    IF acquired /\ (RedisExists(store, getLockName) = 0 \/ wins > 0)
    THEN wins + 1
    ELSE wins

\* rt follows one caller through TryLock (true), Unlock (nil), TryLock with no
\* call of another client in between: 1 after the first TryLock, 2 after the
\* Unlock, then 4 when the next TryLock returns true and 3 when it returns
\* false.
RtAfter(c, ev) ==
    [d \in Clients |->
        IF d # c THEN 0
        ELSE IF ev = "try_true" THEN (IF rt[c] = 2 THEN 4 ELSE 1)
        ELSE IF ev = "try_false" THEN (IF rt[c] = 2 THEN 3 ELSE 0)
        ELSE IF ev = "unlock_nil" THEN (IF rt[c] \in {1, 4} THEN 2 ELSE 0)
        ELSE 0]

\* holder after the record of K was removed by a release or a deletion, and
\* after caller c (or nobody, for Nil) called Unlock
HolderAfter(c, removed) ==
    [d \in Clients |->
        IF d = c THEN Nil
        ELSE IF removed /\ holder[d] = RedisGet(store, getLockName) THEN Nil
        ELSE holder[d]]

\* caller c acquired K and neither it nor anybody else has released since
Holds(c) == holder[c] # Nil

\* ---------------------------------------------------------------- doTryLock
\* m.client.Eval(ctx, lockScript, [getLockName], leaseDuration, extensionId)
EvalLock(c) == lockScript(store, getLockName, LeaseDuration, extensionId(c))

\* a variant in which a done context does not stop a store call
CtxErrNever(c) == FALSE

\* a store call under a context that is already done fails before it is sent
CtxErr(c) == ctxDone[c]

\* err != nil
EvalErr(c, net) == CtxErr(c) \/ net # "ok"

\* the script ran at the store
EvalRan(c, net) == ~CtxErr(c) /\ net # "fail"

\* err == nil and ttl == 0
Acquired(c, net) == ~EvalErr(c, net) /\ EvalLock(c).ret = 0

\* The token matters only to a script that stores it or to an extender that
\* is launched with it: such an attempt needs a fresh one.
doTryLock(c, net) ==
    /\ (EvalRan(c, net) /\ EvalLock(c).ret = 0) => FreshSlots(c) # {}
    /\ store' = IF EvalRan(c, net) THEN EvalLock(c).store ELSE store
    /\ ext' = IF Acquired(c, net) THEN [ext EXCEPT ![extensionId(c)] = Period] ELSE ext
    /\ holder' = IF Acquired(c, net) THEN [holder EXCEPT ![c] = extensionId(c)] ELSE holder
    /\ wins' = WinsAfter(Acquired(c, net))

\* ----------------------------------------------------------------- TryLock
TryLockResult(c, net) ==
    IF EvalErr(c, net) THEN "try_err"
    ELSE IF EvalLock(c).ret = 0 THEN "try_true"
    ELSE "try_false"

TryLock(c, net) ==
    /\ pc[c] = "idle"
    /\ doTryLock(c, net)
    /\ res' = <<c, TryLockResult(c, net)>>
    /\ rt' = RtAfter(c, TryLockResult(c, net))
    /\ UNCHANGED <<subs, inbox, pc, timer, ctxDone>>
    /\ UNCHANGED mapVars

\* -------------------------------------------------------------------- Lock
\* Lock's first TryLock (lines 98-106)
LockStart(c, net) ==
    /\ pc[c] = "idle"
    /\ doTryLock(c, net)
    /\ IF EvalErr(c, net)
       THEN /\ res' = <<c, "lock_err">>
            /\ pc' = pc
       ELSE IF EvalLock(c).ret = 0
       THEN /\ res' = <<c, "lock_nil">>
            /\ pc' = pc
       ELSE /\ res' = NoReturn
            /\ pc' = [pc EXCEPT ![c] = "subscribe"]
    /\ rt' = RtAfter(c, "lock")
    /\ UNCHANGED <<subs, inbox, timer, ctxDone>>
    /\ UNCHANGED mapVars

\* m.client.Subscribe(ctx, getChannelName) (line 109) writes SUBSCRIBE on a
\* connection of its own and returns without waiting for the store's reply;
\* Lock does not call Receive() before it enters the loop.
Subscribe(c) ==
    /\ pc[c] = "subscribe"
    /\ pc' = [pc EXCEPT ![c] = "loop"]
    /\ res' = NoReturn
    /\ UNCHANGED <<store, subs, inbox, ext, holder, timer, ctxDone, wins, rt>>
    /\ UNCHANGED mapVars

\* the store processes the SUBSCRIBE of a pubSub that is still open: from
\* now on the channel's messages reach pubSub.Channel()
SubscribeArrives(c) ==
    /\ pc[c] \in {"loop", "wait"}
    /\ subs[c] = {}
    /\ subs' = [subs EXCEPT ![c] = {getChannelName}]
    /\ res' = NoReturn
    /\ UNCHANGED <<store, inbox, ext, holder, pc, timer, ctxDone, wins, rt>>
    /\ UNCHANGED mapVars

\* a variant that returns a store error without closing the pubSub
LockReturnLeaks(c, r) ==
    /\ res' = <<c, r>>
    /\ pc' = [pc EXCEPT ![c] = "idle"]
    /\ subs' = IF r = "lock_err" THEN subs ELSE [subs EXCEPT ![c] = {}]
    /\ inbox' = [inbox EXCEPT ![c] = <<>>]
    /\ timer' = [timer EXCEPT ![c] = 0]
    /\ ctxDone' = [ctxDone EXCEPT ![c] = FALSE]

\* the deferred pubSub.Close() and the return of Lock
LockReturn(c, r) ==
    /\ res' = <<c, r>>
    /\ pc' = [pc EXCEPT ![c] = "idle"]
    /\ subs' = [subs EXCEPT ![c] = {}]
    /\ inbox' = [inbox EXCEPT ![c] = <<>>]
    /\ timer' = [timer EXCEPT ![c] = 0]
    /\ ctxDone' = [ctxDone EXCEPT ![c] = FALSE]

\* one turn of the loop: doTryLock, then return or start waiting (119-130)
LoopTry(c, net) ==
    /\ pc[c] = "loop"
    /\ doTryLock(c, net)
    /\ IF EvalErr(c, net) THEN LockReturn(c, "lock_err")
       ELSE IF EvalLock(c).ret = 0 THEN LockReturn(c, "lock_nil")
       ELSE /\ pc' = [pc EXCEPT ![c] = "wait"]
            /\ timer' = [timer EXCEPT ![c] =
                            IF EvalLock(c).ret < 0 THEN 0 ELSE EvalLock(c).ret]
            /\ res' = NoReturn
            /\ UNCHANGED <<subs, inbox, ctxDone>>
    /\ rt' = RtAfter(c, "lock")
    /\ UNCHANGED mapVars

\* a variant whose timer never fires
WaitTimeoutNever(c) ==
    /\ pc[c] = "wait"
    /\ timer[c] < 0
    /\ pc' = [pc EXCEPT ![c] = "loop"]
    /\ res' = NoReturn
    /\ UNCHANGED <<store, subs, inbox, ext, holder, timer, ctxDone, wins, rt>>
    /\ UNCHANGED mapVars

\* case <-m.clock.After(ttl ms)
WaitTimeout(c) ==
    /\ pc[c] = "wait"
    /\ timer[c] = 0
    /\ pc' = [pc EXCEPT ![c] = "loop"]
    /\ res' = NoReturn
    /\ UNCHANGED <<store, subs, inbox, ext, holder, timer, ctxDone, wins, rt>>
    /\ UNCHANGED mapVars

\* case msg := <-pubSubCh: the select ends whatever the payload, and the
\* loop turns again
WaitMsg(c) ==
    /\ pc[c] = "wait"
    /\ inbox[c] # <<>>
    /\ inbox' = [inbox EXCEPT ![c] = Tail(inbox[c])]
    /\ pc' = [pc EXCEPT ![c] =
                 IF Head(inbox[c]) = unlockMsg THEN "loop" ELSE "loop"]
    /\ timer' = [timer EXCEPT ![c] = 0]
    /\ res' = NoReturn
    /\ UNCHANGED <<store, subs, ext, holder, ctxDone, wins, rt>>
    /\ UNCHANGED mapVars

\* case <-ctx.Done()
WaitCancel(c) ==
    /\ pc[c] = "wait"
    /\ ctxDone[c]
    /\ LockReturn(c, "lock_cancelled")
    /\ UNCHANGED <<store, ext, holder, wins, rt>>
    /\ UNCHANGED mapVars

\* the caller cancels the context of its Lock while Lock waits
Cancel(c) ==
    /\ pc[c] = "wait"
    /\ ~ctxDone[c]
    /\ ctxDone' = [ctxDone EXCEPT ![c] = TRUE]
    /\ res' = NoReturn
    /\ UNCHANGED <<store, subs, inbox, ext, holder, pc, timer, wins, rt>>
    /\ UNCHANGED mapVars

\* ------------------------------------------------------------------ Unlock
EvalUnlock == unlockScript(store, getLockName, getChannelName, unlockMsg)

Unlock(c, net) ==
    /\ pc[c] = "idle"
    /\ store' = IF net # "fail" THEN EvalUnlock.store ELSE store
    /\ inbox' = IF net # "fail" THEN Deliver(inbox, EvalUnlock.pub) ELSE inbox
    /\ res' = <<c, IF net = "ok" THEN "unlock_nil" ELSE "unlock_err">>
    /\ holder' = HolderAfter(c, net # "fail")
    /\ wins' = IF net # "fail" THEN 0 ELSE wins
    /\ rt' = RtAfter(c, IF net = "ok" THEN "unlock_nil" ELSE "unlock_err")
    /\ UNCHANGED <<subs, ext, pc, timer, ctxDone>>
    /\ UNCHANGED mapVars

\* ---------------------------------------------------------- lease extender
\* variants: an extend that writes the record of K back with its token, and
\* one that refreshes the record of K without comparing the token
EvalExtendRecreates(t) ==
    [store |-> RedisPexpire(RedisSet(store, getLockName, t), getLockName, LeaseDuration),
     ret |-> 1, pub |-> {}]

EvalExtendNoCompare(t) ==
    [store |-> RedisPexpire(store, getLockName, LeaseDuration),
     ret |-> RedisExists(store, getLockName), pub |-> {}]

\* a variant whose extend writes its token into whatever record K has
EvalExtendOverwrites(t) ==
    IF RedisExists(store, getLockName) = 1
    THEN [store |-> RedisPexpire(RedisSet(store, getLockName, t), getLockName, LeaseDuration),
          ret |-> 1, pub |-> {}]
    ELSE [store |-> store, ret |-> 0, pub |-> {}]

\* m.client.Eval(ctx, extendScript, [m.key], leaseDuration, acquireId)
EvalExtend(t) == extendScript(store, key, LeaseDuration, t)

\* a variant that reports success whatever the script replied
extendLeaseAlways(t, net) == TRUE

\* extendLease's success, with err == nil
extendLease(t, net) == net = "ok" /\ EvalExtend(t).ret = 1

\* a variant that goes on to the next tick after a store error
launchLeaseExtenderRetries(t, net) ==
    /\ ext[t] = 0
    /\ store' = IF net # "fail" THEN EvalExtend(t).store ELSE store
    /\ ext' = [ext EXCEPT ![t] = IF net # "ok" \/ extendLease(t, net) THEN Period ELSE Stopped]
    /\ res' = NoReturn
    /\ UNCHANGED <<subs, inbox, holder, pc, timer, ctxDone, wins, rt>>
    /\ UNCHANGED mapVars

\* one tick of launchLeaseExtender's ticker
launchLeaseExtender(t, net) ==
    /\ ext[t] = 0
    /\ store' = IF net # "fail" THEN EvalExtend(t).store ELSE store
    /\ ext' = [ext EXCEPT ![t] = IF extendLease(t, net) THEN Period ELSE Stopped]
    /\ res' = NoReturn
    /\ UNCHANGED <<subs, inbox, holder, pc, timer, ctxDone, wins, rt>>
    /\ UNCHANGED mapVars

\* a variant in which the extender runs under the caller's context and ends
\* with it
CancelReturnedStopsExtender(c) ==
    /\ pc[c] = "idle"
    /\ Holds(c)
    /\ ext[holder[c]] # Stopped
    /\ ext' = [ext EXCEPT ![holder[c]] = Stopped]
    /\ res' = <<c, "ctx_cancelled">>
    /\ UNCHANGED <<store, subs, inbox, holder, pc, timer, ctxDone, wins, rt>>
    /\ UNCHANGED mapVars

\* The caller cancels the context it passed to the TryLock or Lock that
\* acquired, after that call returned and while its extender runs.  launchLeaseExtender runs under
\* ctx := context.Background() (line 180), which this cancellation does not
\* reach: nothing but the caller's knowledge changes.
CancelReturned(c) ==
    /\ pc[c] = "idle"
    /\ Holds(c)
    /\ ext[holder[c]] # Stopped
    /\ res' = <<c, "ctx_cancelled">>
    /\ UNCHANGED <<store, subs, inbox, ext, holder, pc, timer, ctxDone, wins, rt>>
    /\ UNCHANGED mapVars

\* ------------------------------------------------------------- environment
\* client.Del(getLockName) by some other program
ExternalDel ==
    /\ RedisExists(store, getLockName) = 1
    /\ store' = RedisDel(store, getLockName)
    /\ holder' = HolderAfter("", TRUE)
    /\ wins' = 0
    /\ res' = NoReturn
    /\ UNCHANGED <<subs, inbox, ext, pc, timer, ctxDone, rt>>
    /\ UNCHANGED mapVars

\* a variant in which the After timers do not run
TickNoTimers ==
    /\ \A t \in Tokens : ext[t] # 0
    /\ store' = [k \in StoreKeys |-> Age(store[k])]
    /\ ext' = [t \in Tokens |-> IF ext[t] > 0 THEN ext[t] - 1 ELSE ext[t]]
    /\ wins' = 0
    /\ res' = NoReturn
    /\ UNCHANGED <<subs, inbox, holder, pc, timer, ctxDone, rt>>
    /\ UNCHANGED mapVars

\* some other program publishes otherMsg on the release channel of K
ExternalPublish ==
    /\ \E c \in Clients : getChannelName \in subs[c] /\ Len(inbox[c]) < MaxInbox
    /\ inbox' = Deliver(inbox, {<<getChannelName, otherMsg>>})
    /\ res' = NoReturn
    /\ UNCHANGED <<store, subs, ext, holder, pc, timer, ctxDone, wins, rt>>
    /\ UNCHANGED mapVars

\* the clock advances by one unit, unless an extender's tick is due
Tick ==
    /\ \A t \in Tokens : ext[t] # 0
    /\ store' = [k \in StoreKeys |-> Age(store[k])]
    /\ ext' = [t \in Tokens |-> IF ext[t] > 0 THEN ext[t] - 1 ELSE ext[t]]
    /\ timer' = [c \in Clients |-> IF timer[c] > 0 THEN timer[c] - 1 ELSE 0]
    /\ wins' = 0
    /\ res' = NoReturn
    /\ UNCHANGED <<subs, inbox, holder, pc, ctxDone, rt>>
    /\ UNCHANGED mapVars

Next ==
    \/ \E c \in Clients, net \in Net : TryLock(c, net)
    \/ \E c \in Clients, net \in Net : LockStart(c, net)
    \/ \E c \in Clients : Subscribe(c)
    \/ \E c \in Clients : SubscribeArrives(c)
    \/ \E c \in Clients, net \in Net : LoopTry(c, net)
    \/ \E c \in Clients : WaitTimeout(c)
    \/ \E c \in Clients : WaitMsg(c)
    \/ \E c \in Clients : WaitCancel(c)
    \/ \E c \in Clients : Cancel(c)
    \/ \E c \in Clients, net \in Net : Unlock(c, net)
    \/ \E t \in Tokens, net \in Net : launchLeaseExtender(t, net)
    \/ \E c \in Clients : CancelReturned(c)
    \/ ExternalDel
    \/ Tick

Spec == Init /\ [][Next]_vars

\* The same with a second publisher on the release channel.
NextForeign ==
    \/ Next
    \/ ExternalPublish

SpecForeign == Init /\ [][NextForeign]_vars

\* ---------------------------------------------------------------- scenarios
\* The scenario of the wait tests: the store answers every call, no context
\* is cancelled, and there is no second contender (nobody starts an
\* acquisition while another caller is inside Lock).
Calm(c) == \A d \in Clients \ {c} : pc[d] = "idle"

NextCalm ==
    \/ \E c \in Clients : Calm(c) /\ TryLock(c, "ok")
    \/ \E c \in Clients : Calm(c) /\ LockStart(c, "ok")
    \/ \E c \in Clients : Subscribe(c)
    \/ \E c \in Clients : SubscribeArrives(c)
    \/ \E c \in Clients : LoopTry(c, "ok")
    \/ \E c \in Clients : WaitTimeout(c)
    \/ \E c \in Clients : WaitMsg(c)
    \/ \E c \in Clients : Unlock(c, "ok")
    \/ \E t \in Tokens : launchLeaseExtender(t, "ok")
    \/ ExternalDel
    \/ Tick

\* The goroutine inside Lock is scheduled: a delivered message is received
\* and the loop turns.  Nothing is assumed about the clock.
SpecWake ==
    /\ Init
    /\ [][NextCalm]_vars
    /\ \A c \in Clients : WF_vars(WaitMsg(c)) /\ WF_vars(LoopTry(c, "ok"))

\* As SpecWake, and the clock advances, timers and tickers fire.
SpecAbandon ==
    /\ Init
    /\ [][NextCalm]_vars
    /\ \A c \in Clients :
        WF_vars(WaitMsg(c)) /\ WF_vars(LoopTry(c, "ok")) /\ WF_vars(WaitTimeout(c))
    /\ \A t \in Tokens : WF_vars(launchLeaseExtender(t, "ok"))
    /\ WF_vars(Tick)

\* The scenario of a store that the lease extenders cannot reach: callers'
\* TryLock and Unlock are answered, every extend call fails (the request is
\* not served, or its reply is lost).  The clock advances and due tickers
\* fire.
NextExtendFails ==
    \/ \E c \in Clients : TryLock(c, "ok")
    \/ \E c \in Clients : Unlock(c, "ok")
    \/ \E t \in Tokens, net \in Net \ {"ok"} : launchLeaseExtender(t, net)
    \/ ExternalDel
    \/ Tick

SpecExtendFails ==
    /\ Init
    /\ [][NextExtendFails]_vars
    /\ \A t \in Tokens : WF_vars(\E net \in Net \ {"ok"} : launchLeaseExtender(t, net))
    /\ WF_vars(Tick)

\* ------------------------------------------------------ the Map's operations
Get(k, net) ==
    /\ mres' =
         LET r == HGet(hash, computeKey(k)) IN
         IF net # "ok"
         THEN [op |-> "get", key |-> k, val |-> "", exists |-> FALSE, err |-> TRUE]
         ELSE IF r.nil
         THEN [op |-> "get", key |-> k, val |-> "", exists |-> FALSE, err |-> FALSE]
         ELSE [op |-> "get", key |-> k, val |-> Unmarshal(r.val).val,
               exists |-> TRUE, err |-> Unmarshal(r.val).err]
    /\ UNCHANGED <<hash, mlast, mutexVars>>

Set(k, v, net) ==
    /\ hash' = IF net # "fail" THEN HSet(hash, computeKey(k), Marshal(v)) ELSE hash
    /\ mlast' = IF net # "fail"
                THEN [mlast EXCEPT ![k] = [exists |-> TRUE, val |-> v]]
                ELSE mlast
    /\ mres' = [op |-> "set", key |-> k, val |-> v, exists |-> FALSE, err |-> net # "ok"]
    /\ UNCHANGED mutexVars

Del(k, net) ==
    /\ hash' = IF net # "fail" THEN HDel(hash, computeKey(k)) ELSE hash
    /\ mlast' = IF net # "fail" THEN [mlast EXCEPT ![k] = NoVal] ELSE mlast
    /\ mres' = [op |-> "del", key |-> k, val |-> "", exists |-> FALSE, err |-> net # "ok"]
    /\ UNCHANGED mutexVars

NextMap ==
    \/ \E k \in MapKeys, net \in Net : Get(k, net)
    \/ \E k \in MapKeys, v \in MapVals, net \in Net : Set(k, v, net)
    \/ \E k \in MapKeys, net \in Net : Del(k, net)

SpecMap == Init /\ [][NextMap]_vars

\* ------------------------------------------------------------------ claims

\* C1: while a caller that acquired K has not called Unlock (and nobody has
\* released or deleted its record), no acquisition of another caller
\* succeeds; in particular no step makes another caller a holder by creating
\* the record of K with that caller's token.
C1_MutualExclusion ==
    [][\A c \in Clients, d \in Clients :
        (c # d /\ Holds(c) /\ holder'[d] # holder[d] /\ Holds(d)')
            => RedisGet(store', getLockName) # holder'[d]]_vars

\* C2: of the acquisitions attempted on a free key at one instant of the
\* store's clock, with no release or deletion in between, at most one is
\* granted.
C2_OneWinner == wins <= 1

C2_Witness == wins = 1 /\ \E c \in Clients : res = <<c, "try_false">>

\* C3: the record that carries the token of a caller which still holds K
\* stays alive: it disappears only when somebody releases or deletes it,
\* never by expiry.
C3_LeaseKeptAlive ==
    [][\A c \in Clients :
        (Holds(c) /\ RedisGet(store, getLockName) = holder[c])
            => (RedisGet(store', getLockName) = holder[c] \/ ~Holds(c)')]_vars

\* C4: an Unlock by a former holder, whose lease expired (its extender has
\* stopped) and whose successor acquired K with another token, leaves the
\* successor's record in place.
C4_StaleUnlockHarmless ==
    [][\A c \in Clients, d \in Clients :
        (/\ c # d
         /\ Holds(c) /\ Holds(d)
         /\ ext[holder[c]] = Stopped
         /\ RedisGet(store, getLockName) = holder[d]
         /\ \E net \in Net : Unlock(c, net))
            => store'[getLockName] = store[getLockName]]_vars

\* C5: the Unlock of a held key delivers the release message to a contender
\* that waits in Lock with its subscription established, and a waiting
\* contender with the release message in its buffer returns nil from Lock,
\* owning the record, without the clock having to advance.
C5_WakeOnRelease ==
    /\ [][\A c \in Clients :
            (/\ pc[c] = "wait"
             /\ getChannelName \in subs[c]
             /\ inbox[c] = <<>>
             /\ RedisExists(store, getLockName) = 1
             /\ \E a \in Clients : Unlock(a, "ok"))
                => inbox'[c] = <<unlockMsg>>]_vars
    /\ \A c \in Clients :
        (/\ pc[c] = "wait"
         /\ inbox[c] # <<>>
         /\ Head(inbox[c]) = unlockMsg
         /\ FreshSlots(c) # {})
            ~> (res = <<c, "lock_nil">> /\ RedisGet(store, getLockName) = holder[c])

C5_Witness ==
    \E c \in Clients :
        pc[c] = "wait" /\ inbox[c] = <<unlockMsg>> /\ timer[c] > 0 /\ FreshSlots(c) # {}

\* C6: a contender that waits in Lock while the record of K is gone and no
\* release message was delivered to it returns nil from Lock, owning the
\* record, once its timer has run out.
C6_TtlFallback ==
    \A c \in Clients :
        (/\ pc[c] = "wait"
         /\ RedisExists(store, getLockName) = 0
         /\ inbox[c] = <<>>
         /\ FreshSlots(c) # {})
            ~> (res = <<c, "lock_nil">> /\ RedisGet(store, getLockName) = holder[c])

C6_Witness ==
    \E c \in Clients :
        /\ pc[c] = "wait"
        /\ RedisExists(store, getLockName) = 0
        /\ inbox[c] = <<>>
        /\ timer[c] > 0
        /\ FreshSlots(c) # {}

\* C7: a Lock whose context was cancelled while it waited returns an error,
\* and the step that returns creates no record, starts no extender and makes
\* nobody a holder.
C7_CancelWhileWaiting ==
    [][\A c \in Clients :
        (ctxDone[c] /\ pc'[c] = "idle")
            => (/\ res' \in {<<c, "lock_cancelled">>, <<c, "lock_err">>}
                /\ store' = store
                /\ ext' = ext
                /\ holder' = holder)]_vars

C7_Witness ==
    \E c \in Clients :
        /\ res = <<c, "lock_cancelled">>
        /\ RedisExists(store, getLockName) = 1
        /\ ~Holds(c)

\* C8: a TryLock that the store answers while the record of K exists
\* returns false.
C8_TryLockFailsWhileHeld ==
    [][\A c \in Clients :
        (RedisExists(store, getLockName) = 1 /\ TryLock(c, "ok"))
            => res' = <<c, "try_false">>]_vars

\* C9: after a caller's TryLock returned true and its Unlock returned nil,
\* with no call of another client in between or after, its next TryLock
\* that the store answers does not return false.
C9_RoundTrip == \A c \in Clients : rt[c] # 3

C9_Witness == \E c \in Clients : rt[c] = 4 /\ res = <<c, "try_true">>

\* C10: an Unlock that the store answers returns nil and leaves the key
\* free; on a free key it changes nothing in the store and publishes nothing.
C10_UnlockOnFreeKey ==
    [][\A c \in Clients :
        Unlock(c, "ok")
            => (/\ res' = <<c, "unlock_nil">>
                /\ RedisExists(store', getLockName) = 0
                /\ RedisExists(store, getLockName) = 0
                    => (store' = store /\ inbox' = inbox))]_vars

C10_Witness ==
    \E c \in Clients, d \in Clients :
        /\ res = <<c, "unlock_nil">>
        /\ getChannelName \in subs[d]
        /\ inbox[d] = <<>>
        /\ RedisExists(store, getLockName) = 0

\* C11: while the record of K is absent, only an acquire attempt (TryLock,
\* or Lock's attempts) creates it: no tick of a former holder's lease
\* extender, and no passing of time, brings it back; and a TryLock that the
\* store answers while the record is absent returns true.
C11_NoExtensionAfterUnlock ==
    [][/\ (RedisExists(store, getLockName) = 0 /\ RedisExists(store', getLockName) = 1)
            => \E c \in Clients, net \in Net :
                   TryLock(c, net) \/ LockStart(c, net) \/ LoopTry(c, net)
       /\ \A c \in Clients :
            (RedisExists(store, getLockName) = 0 /\ TryLock(c, "ok"))
                => res' = <<c, "try_true">>]_vars

\* the caller acquired and unlocked, and its extender's tick is due
C11_Witness ==
    \E t \in Tokens :
        /\ rt[t[1]] = 2
        /\ ext[t] = 0
        /\ RedisExists(store, getLockName) = 0

\* C12: a tick of a lease extender changes the record of K only when the
\* token it presents is the record's value; an extender that presents any
\* other token gets 0, does not go on, and leaves value and TTL as they were.
C12_ExtendTokenCheck ==
    [][\A t \in Tokens, net \in Net :
        launchLeaseExtender(t, net)
            => /\ store'[getLockName] # store[getLockName]
                    => RedisGet(store, getLockName) = t
               /\ RedisGet(store, getLockName) # t
                    => /\ EvalExtend(t).ret = 0
                       /\ ~extendLease(t, net)
                       /\ store'[getLockName] = store[getLockName]]_vars

\* the tick of an extender is due while the record carries another token
C12_Witness ==
    \E t \in Tokens :
        /\ ext[t] = 0
        /\ RedisGet(store, getLockName) \in Tokens \ {t}

\* C13 as stated: the record of K is absent, or present with one owner token
\* and a positive remaining TTL.
C13_RecordInvariant ==
    \/ RedisExists(store, getLockName) = 0
    \/ /\ RedisGet(store, getLockName) \in Tokens
       /\ RedisPttl(store, getLockName) > 0

\* C13 amended: the record of K is absent, or present with one owner token
\* and an expiry; its remaining TTL is positive, or 0 at the instant of its
\* expiry time, when the record still exists.  It is never without expiry.
C13_RecordInvariantAmended ==
    \/ RedisExists(store, getLockName) = 0
    \/ /\ RedisGet(store, getLockName) \in Tokens
       /\ RedisPttl(store, getLockName) \in 0..LeaseDuration

\* the record at the instant of its expiry time
C13_Witness ==
    /\ RedisExists(store, getLockName) = 1
    /\ RedisPttl(store, getLockName) = 0

\* C14: cancelling, after the call returned, the context that was passed to
\* the acquiring TryLock or Lock leaves the store and every lease extender
\* as they are; an extender ends only in one of its own ticks, on an extend
\* result other than 1 or on a store error.
C14_CancelAfterReturn ==
    [][/\ \A c \in Clients :
            CancelReturned(c) => (store' = store /\ ext' = ext)
       /\ \A t \in Tokens :
            (ext[t] # Stopped /\ ext'[t] = Stopped)
                => \E net \in Net :
                       /\ launchLeaseExtender(t, net)
                       /\ (net # "ok" \/ EvalExtend(t).ret # 1)]_vars

\* the context was cancelled while the acquisition's extender runs and the
\* record carries its token
C14_Witness ==
    \E c \in Clients :
        /\ res = <<c, "ctx_cancelled">>
        /\ Holds(c)
        /\ ext[holder[c]] # Stopped
        /\ RedisGet(store, getLockName) = holder[c]

\* C15: every script the Mutex runs acts as the same script evaluated on the
\* record key go_redisson_lock:{K}: the acquire script in every attempt, the
\* release script (which publishes on go_redisson_lock_channel:{K}) in every
\* Unlock, the extend script in every tick of a lease extender.
C15_KeyNaming ==
    [][/\ \A c \in Clients, net \in Net :
            (TryLock(c, net) \/ LockStart(c, net) \/ LoopTry(c, net))
                => EvalLock(c) =
                       lockScript(store, "go_redisson_lock:k", LeaseDuration, extensionId(c))
       /\ \A c \in Clients, net \in Net :
            Unlock(c, net)
                => EvalUnlock =
                       unlockScript(store, "go_redisson_lock:k",
                                    "go_redisson_lock_channel:k", unlockMsg)
       /\ \A t \in Tokens, net \in Net :
            launchLeaseExtender(t, net)
                => EvalExtend(t) =
                       extendScript(store, "go_redisson_lock:k", LeaseDuration, t)]_vars

C17_ExtenderStops ==
    /\ [](\A t \in Tokens : ext[t] <= Period)
    /\ [][\A t \in Tokens :
            (ext[t] # Stopped /\ RedisGet(store, getLockName) # t)
                => /\ ext'[t] \in {Stopped, ext[t], ext[t] - 1}
                   /\ (\E net \in Net : launchLeaseExtender(t, net))
                        => (ext'[t] = Stopped /\ store' = store)]_vars

\* the tick of an extender is due after its record was removed by somebody
\* other than its caller's Unlock
C17_Witness ==
    \E t \in Tokens :
        /\ ext[t] = 0
        /\ RedisGet(store, getLockName) # t
        /\ rt[t[1]] # 2

\* C18: every acquire attempt of Lock's loop is made with the subscription
\* to the release channel of K established, so that a release that follows
\* a failed attempt is delivered to the contender, whose buffer has room.
C18_NoLostWakeup ==
    [][\A c \in Clients :
        /\ (\E net \in Net : LoopTry(c, net)) => getChannelName \in subs[c]
        /\ (/\ pc[c] = "wait"
            /\ inbox[c] = <<>>
            /\ RedisExists(store, getLockName) = 1
            /\ \E a \in Clients : Unlock(a, "ok"))
                => inbox'[c] = <<unlockMsg>>]_vars

C20_OnlyUnlockedEndsWait ==
    [][\A c \in Clients :
        (pc[c] = "wait" /\ inbox[c] # <<>> /\ WaitMsg(c))
            => IF Head(inbox[c]) = unlockMsg
               THEN pc'[c] = "loop"
               ELSE pc'[c] = "wait"]_vars

\* C21: an acquire attempt that reaches the store, and that the store
\* answers, while the record of K exists (a TryLock, or an attempt of Lock's
\* loop) leaves the record's token and TTL as they were, starts no lease
\* extender, makes nobody a holder and reports "not acquired" without error:
\* TryLock returns false, Lock goes on to wait.
C21_AttemptOnHeldKey ==
    [][\A c \in Clients :
        RedisExists(store, getLockName) = 1
            => /\ (\E net \in Net : TryLock(c, net) \/ LoopTry(c, net))
                    => store'[getLockName] = store[getLockName]
               /\ TryLock(c, "ok")
                    => (ext' = ext /\ holder' = holder /\ res' = <<c, "try_false">>)
               /\ (~CtxErr(c) /\ LoopTry(c, "ok"))
                    => (ext' = ext /\ holder' = holder /\ pc'[c] = "wait")]_vars

\* C22: while the record of K exists its owner token does not change; the
\* record appears only in an acquire attempt whose script replied 0 at the
\* store; a tick of a lease extender neither creates nor removes it nor
\* changes its token; and it disappears only in an Unlock, in an external
\* deletion, or when the clock passes its expiry time.
C22_TokenFixedForLife ==
    [][/\ (RedisExists(store, getLockName) = 1 /\ RedisExists(store', getLockName) = 1)
            => RedisGet(store', getLockName) = RedisGet(store, getLockName)
       /\ (RedisExists(store, getLockName) = 0 /\ RedisExists(store', getLockName) = 1)
            => \E c \in Clients, net \in Net :
                   /\ TryLock(c, net) \/ LockStart(c, net) \/ LoopTry(c, net)
                   /\ EvalRan(c, net)
                   /\ EvalLock(c).ret = 0
                   /\ RedisGet(store', getLockName) = extensionId(c)
       /\ \A t \in Tokens, net \in Net :
            launchLeaseExtender(t, net)
                => /\ RedisGet(store', getLockName) = RedisGet(store, getLockName)
                   /\ RedisExists(store', getLockName) = RedisExists(store, getLockName)
       /\ (RedisExists(store, getLockName) = 1 /\ RedisExists(store', getLockName) = 0)
            => \/ \E c \in Clients, net \in Net : net # "fail" /\ Unlock(c, net)
               \/ ExternalDel
               \/ Tick /\ RedisPttl(store, getLockName) = 0]_vars

\* the record of a holder outlived its extender, while the extender of a
\* former holder is still running
C22_Witness ==
    \E c \in Clients, t \in Tokens :
        /\ Holds(c)
        /\ RedisGet(store, getLockName) = holder[c]
        /\ ext[holder[c]] = Stopped
        /\ t # holder[c]
        /\ ext[t] # Stopped

\* C23: a tick of a lease extender whose extend call fails with a store
\* error ends the extender, returns nothing to any caller and leaves holder
\* and callers as they were; the extender is not started again for the
\* record; from then on the record's TTL only runs down with the clock, from
\* at most one lease duration, until the record is deleted, released, or
\* removed by the clock passing its expiry time, which does happen.
C23_ExtendErrorEndsLease ==
    /\ [][\A t \in Tokens, net \in Net \ {"ok"} :
            launchLeaseExtender(t, net)
                => /\ ext'[t] = Stopped
                   /\ res' = NoReturn
                   /\ holder' = holder
                   /\ pc' = pc]_vars
    /\ [][\A t \in Tokens :
            (RedisGet(store, getLockName) = t /\ ext[t] = Stopped)
                => /\ RedisGet(store', getLockName) = t => ext'[t] = Stopped
                   /\ RedisPttl(store, getLockName) \in 0..LeaseDuration
                   /\ \/ store'[getLockName] = store[getLockName]
                      \/ Tick /\ store'[getLockName] = Age(store[getLockName])
                      \/ \E c \in Clients : Unlock(c, "ok")
                      \/ ExternalDel]_vars
    /\ \A t \in Tokens :
        (RedisGet(store, getLockName) = t /\ ext[t] = Stopped)
            ~> RedisExists(store, getLockName) = 0

\* the extender of a holder has ended on a store error while the record of
\* its acquisition exists, and the holder has not been told
C23_Witness ==
    \E c \in Clients :
        /\ Holds(c)
        /\ RedisGet(store, getLockName) = holder[c]
        /\ ext[holder[c]] = Stopped
        /\ RedisPttl(store, getLockName) > 0
        /\ res = NoReturn

\* C24: a caller has a subscription only inside a Lock that missed its first
\* TryLock and opened its pubSub, and then only the one to the release
\* channel of K; the pubSub is opened once per call, never from inside the
\* loop; an established subscription stays as it is until the call returns;
\* and every return of Lock from the loop (nil, cancelled, store error)
\* leaves the caller without subscription and without buffered messages.
C24_OneSubscriptionPerLock ==
    /\ [](\A c \in Clients :
            /\ subs[c] \subseteq {getChannelName}
            /\ pc[c] \in {"idle", "subscribe"} => (subs[c] = {} /\ inbox[c] = <<>>))
    /\ [][\A c \in Clients :
            /\ pc'[c] = "subscribe" => pc[c] \in {"idle", "subscribe"}
            /\ (subs[c] # {} /\ pc'[c] # "idle") => subs'[c] = subs[c]
            /\ (pc[c] \in {"loop", "wait"} /\ pc'[c] = "idle")
                => /\ res' \in {<<c, "lock_nil">>, <<c, "lock_err">>, <<c, "lock_cancelled">>}
                   /\ subs'[c] = {}
                   /\ inbox'[c] = <<>>]_vars

\* one contender has returned from its wait on cancellation, closing its
\* pubSub, while the other still waits with its subscription established
C24_Witness ==
    \E c \in Clients, d \in Clients :
        /\ res = <<c, "lock_cancelled">>
        /\ pc[c] = "idle"
        /\ subs[c] = {}
        /\ pc[d] = "wait"
        /\ subs[d] = {getChannelName}

\* C25: a step in which TryLock returns true or Lock returns nil started
\* from a state without record of K and creates the record with the token
\* minted for that attempt; and an acquire script that finds a record never
\* replies 0.
C25_AcquiredMeansCreated ==
    [][\A c \in Clients :
        /\ res' \in {<<c, "try_true">>, <<c, "lock_nil">>}
            => /\ RedisExists(store, getLockName) = 0
               /\ RedisGet(store', getLockName) = extensionId(c)
               /\ holder'[c] = RedisGet(store', getLockName)
        /\ (/\ RedisExists(store, getLockName) = 1
            /\ \E net \in Net : TryLock(c, net) \/ LockStart(c, net) \/ LoopTry(c, net))
                => EvalLock(c).ret # 0]_vars

\* C26: a step in which TryLock returns an error leaves the store as it was,
\* so that no record of K carries a token of that call, starts no lease
\* extender and makes nobody a holder, whether the request was never served
\* or was served and its reply lost.
C26_ErrorLeavesNoTrace ==
    [][\A c \in Clients :
        res' = <<c, "try_err">>
            => /\ store' = store
               /\ ext' = ext
               /\ holder' = holder]_vars
====
